---------------------------- MODULE Spec2Model ----------------------------
(***************************************************************************)
(* Genetic algorithm for polynomial approximation (apc-llc/genetic_algorithm)*)
(*                                                                         *)
(* Part 1: the sequential GA of cpu_version (src/unnamed/part_000).        *)
(* Part 2: the MPI gather of mpi_version   (src/unnamed/part_002).         *)
(*                                                                         *)
(* Number representation.  Floats are modelled in fixed point:             *)
(*   - a gene is an integer count of 0.01 (the amplitude of one mutation   *)
(*     step, 0.01*(2*frand()-1) in [-0.01, 0.01]);                         *)
(*   - a point's x is an integer, its y an integer count of 0.01;          *)
(*   - a fitness is therefore an integer count of 0.0001.                  *)
(* Population buffers are flat arrays, indexed from 0 as in the source.    *)
(***************************************************************************)
EXTENDS Integers, Sequences, FiniteSets

(***************************************************************************)
(* Bounds of the model                                                     *)
(***************************************************************************)
\* POPULATION_SIZE of the inputs of crossover alone is at most
MaxCrossoverSize == 6
\* POPULATION_SIZE of the inputs of selection alone is at most
MaxSelectionSize == 4
\* N_POINTS is at most
MaxPoints == 1
\* maxGenerationNumber of the runs of the whole loop is at most
MaxGenerations == 3
\* genes that one run's calls of mutation change, all together, at most
MaxMutations == 1

(***************************************************************************)
(* Program constants                                                       *)
(***************************************************************************)
\* number of genes of an individual: main prints c0 .. c3
INDIVIDUAL_LEN == 4
\* sizeof(float): the buffers are allocated POPULATION_SIZE*INDIVIDUAL_LEN*sizeof(float) floats
SizeofFloat == 4
\* "Cannot run with more than 4 processes!"
MaxProcesses == 4
\* INFINITY, larger than every fitness of the model
INFINITY == 1000000000
\* the 0.01 of "fabs(bestFitness - previousBestFitness) < 0.01", in units of 0.0001
NoChangeEps == 100

(***************************************************************************)
(* State                                                                   *)
(***************************************************************************)
VARIABLES
    POPULATION_SIZE,      \* config.h
    N_POINTS,             \* config.h
    maxGenerationNumber,  \* config.h
    targetErr,            \* config.h
    maxConstIter,         \* config.h
    points,               \* readData's result: x at [k], y at [N_POINTS+k]
    population,           \* buffer the pointer "population" refers to
    newPopulation,        \* buffer the pointer "newPopulation" refers to
    current_fitnesses,
    generationNumber,
    noChangeIter,
    bestFitness,
    previousBestFitness,
    pc,                   \* position of main
    mutations,            \* number of genes mutation has changed so far in this run
    beyond_fitnesses,     \* the float that lies where current_fitnesses[POPULATION_SIZE] is read
    draws,                \* crossover's locals of its last call: parent1_i, parent2_i, crosspoint
    written               \* indices of the output buffer crossover stored to in its last call

gaVars == << POPULATION_SIZE, N_POINTS, maxGenerationNumber, targetErr, maxConstIter,
             points, population, newPopulation, current_fitnesses, generationNumber,
             noChangeIter, bestFitness, previousBestFitness, pc, mutations,
             beyond_fitnesses, draws, written >>

config == << POPULATION_SIZE, N_POINTS, maxGenerationNumber, targetErr, maxConstIter, points >>

VARIABLES
    commSize,             \* number of MPI processes
    mpc,                  \* position of main of every rank
    result_o,             \* per rank: solution_o, bestFitness_o, time_o, genNumber_o
    channel,              \* per rank: its messages <<tag, value>> to rank 0 not yet received
    recv_i,               \* i of the master's receive loop
    solution_all,
    bestFitness_all,
    time_all,
    genNumber_all,
    printed,              \* what the master has printed as the solution found
    aborted               \* my_abort has called MPI_Abort

mpiVars == << commSize, mpc, result_o, channel, recv_i, solution_all, bestFitness_all,
              time_all, genNumber_all, printed, aborted >>

vars == << gaVars, mpiVars >>

(***************************************************************************)
(* Helpers                                                                 *)
(***************************************************************************)
Abs(x) == IF x < 0 THEN -x ELSE x

RECURSIVE Pow(_, _)
Pow(x, n) == IF n = 0 THEN 1 ELSE x * Pow(x, n - 1)

RECURSIVE SumTo(_, _)
\* f[0] + ... + f[n-1]
SumTo(f, n) == IF n = 0 THEN 0 ELSE f[n - 1] + SumTo(f, n - 1)

\* the genes of the individual stored at position i of a flat buffer
Individual(buf, i) == [j \in 0 .. INDIVIDUAL_LEN - 1 |-> buf[i * INDIVIDUAL_LEN + j]]

\* number of floats of a population buffer
AllocLen(size) == size * INDIVIDUAL_LEN * SizeofFloat


(***************************************************************************)
(* Inputs: random draws, file contents and uninitialised memory            *)
(***************************************************************************)
\* values rand()/RAND_MAX*10 - 5 gives the individuals of the first population
InitIndividuals == { <<3, 1, -2, 4>>, <<60, 0, 0, -60>> }

\* contents of floats that were allocated and never stored to
UninitFloats == {0, 7}

\* POPULATION_SIZE of config.h in the runs of the whole loop.  From 4 on crossover
\* also reads floats beyond the population (see the inputs of crossover alone); the
\* loop is explored for the sizes below
PopulationSizes == 0 .. 3

\* targetErr of config.h, in units of 0.0001
TargetErrs == {0, 50}

\* maxConstIter of config.h
MaxConstIters == {1, 3}

\* the file: N points (k, 0), k = 0 .. N-1, of the polynomial 0
PointsOf(n) == [k \in 0 .. 2 * n - 1 |-> IF k < n THEN k ELSE 0]

(***************************************************************************)
(* fitness                                                                 *)
(***************************************************************************)
\* f_approx of individual i at x
FApprox(individuals, i, x) ==
    SumTo([order \in 0 .. INDIVIDUAL_LEN - 1 |->
              individuals[i * INDIVIDUAL_LEN + order] * Pow(x, order)], INDIVIDUAL_LEN)

\* sumError of individual i over the N_POINTS points
SumError(individuals, pts, n, i) ==
    SumTo([pt \in 0 .. n - 1 |-> Pow(FApprox(individuals, i, pts[pt]) - pts[n + pt], 2)], n)

\* the table fitness() writes
fitness(individuals, pts, n, size) ==
    [i \in 0 .. size - 1 |-> SumError(individuals, pts, n, i)]

(***************************************************************************)
(* crossover                                                               *)
(***************************************************************************)
\* number of iterations of crossover's second loop
CrossoverPairs(size) ==
    LET first == (size \div 2) * INDIVIDUAL_LEN
        last  == size * INDIVIDUAL_LEN
    IN  IF last <= first THEN 0
        ELSE (last - first + 2 * INDIVIDUAL_LEN - 1) \div (2 * INDIVIDUAL_LEN)

\* i of the k-th iteration (k = 1, 2, ...) of crossover's second loop
CrossoverBase(size, k) == (size \div 2) * INDIVIDUAL_LEN + (k - 1) * 2 * INDIVIDUAL_LEN

\* parent1_i, parent2_i for a draw r of random() % (POPULATION_SIZE/2)
ParentIndex(r) == r * INDIVIDUAL_LEN

\* the index crossover reads gene j of a parent from
ParentGene(parent_i, j) == parent_i * INDIVIDUAL_LEN + j

\* what one call of crossover can draw: per pair, two parents and a crosspoint
CrossoverDraws(size) ==
    [1 .. CrossoverPairs(size) ->
        [parent1_i : {ParentIndex(r) : r \in 0 .. (size \div 2) - 1},
         parent2_i : {ParentIndex(r) : r \in 0 .. (size \div 2) - 1},
         crosspoint : 1 .. INDIVIDUAL_LEN - 2]]

\* the indices of newPopulation crossover stores to
CrossoverWritten(size) ==
    (0 .. (size \div 2) * INDIVIDUAL_LEN - 1)
    \cup UNION { CrossoverBase(size, k) .. CrossoverBase(size, k) + 2 * INDIVIDUAL_LEN - 1 :
                 k \in 1 .. CrossoverPairs(size) }

\* the value crossover stores at index idx of newPopulation, idx in CrossoverWritten
CrossoverValue(oldPopulation, size, d, idx) ==
    IF idx < (size \div 2) * INDIVIDUAL_LEN
    THEN oldPopulation[idx]
    ELSE LET k     == ((idx - (size \div 2) * INDIVIDUAL_LEN) \div (2 * INDIVIDUAL_LEN)) + 1
             off   == idx - CrossoverBase(size, k)
             j     == off % INDIVIDUAL_LEN
             first == off < INDIVIDUAL_LEN
         IN  IF (j < d[k].crosspoint) = first
             THEN oldPopulation[ParentGene(d[k].parent1_i, j)]
             ELSE oldPopulation[ParentGene(d[k].parent2_i, j)]

\* newPopulation after crossover(oldPopulation, newPopulation) with draws d
crossover(oldPopulation, newPop, size, d) ==
    [idx \in DOMAIN newPop |->
        IF idx \in CrossoverWritten(size)
        THEN CrossoverValue(oldPopulation, size, d, idx)
        ELSE newPop[idx]]

(***************************************************************************)
(* mutation                                                                *)
(***************************************************************************)
\* a mutation whose outer loop starts at individual 0
MutableGenesFromFirst(size) == 0 .. size * INDIVIDUAL_LEN - 1

\* the genes mutation may add noise to: those of individuals 1 .. POPULATION_SIZE-1
MutableGenes(size) == INDIVIDUAL_LEN .. size * INDIVIDUAL_LEN - 1

RECURSIVE MutationChoices(_, _, _)
\* the outcomes of mutation's draws: up to n genes idx (increasing, from lo on) get
\* 0.01*(2*frand()-1) = d added, d one of -0.01, +0.01
MutationChoices(size, lo, n) ==
    IF n = 0 THEN { <<>> }
    ELSE { <<>> } \cup
         UNION { { << <<idx, d>> >> \o rest : rest \in MutationChoices(size, idx + 1, n - 1) } :
                 idx \in { x \in MutableGenes(size) : x >= lo }, d \in {-1, 1} }

\* a mutation that computes idx from i-1: the noise drawn for a gene lands on the
\* same gene of the individual before
mutationShifted(individuals, m) ==
    [idx \in DOMAIN individuals |->
        IF \E k \in DOMAIN m : m[k][1] = idx + INDIVIDUAL_LEN
        THEN individuals[idx] + m[CHOOSE k \in DOMAIN m : m[k][1] = idx + INDIVIDUAL_LEN][2]
        ELSE individuals[idx]]

\* individuals after mutation with the outcome m
mutation(individuals, m) ==
    [idx \in DOMAIN individuals |->
        IF \E k \in DOMAIN m : m[k][1] = idx
        THEN individuals[idx] + m[CHOOSE k \in DOMAIN m : m[k][1] = idx][2]
        ELSE individuals[idx]]

(***************************************************************************)
(* selection                                                               *)
(***************************************************************************)
\* a comparison that sorts the larger fitness first
myCmpPairGreater(p1, p2) == p1[1] > p2[1]

\* pair<fitness,index> - take fitness as sorting key
myCmpPair(p1, p2) == p1[1] < p2[1]

\* the orders sort(pairs, pairs+POPULATION_SIZE, myCmpPair) may leave the pairs
\* (fitnesses[i], i) in: every arrangement in which no element is, by the
\* comparison, less than one placed before it (std::sort is not stable)
SortedPairs(fitnesses, size) ==
    { pairs \in [0 .. size - 1 -> { <<fitnesses[i], i>> : i \in 0 .. size - 1 }] :
        /\ \A i \in 0 .. size - 1 : \E k \in 0 .. size - 1 : pairs[k][2] = i
        /\ \A a, b \in 0 .. size - 1 : a < b => ~ myCmpPair(pairs[b], pairs[a]) }

\* a reordering loop that reads individual i instead of individual pairs[i].second
selectionByPosition(pop, newPop, size, pairs) ==
    [idx \in DOMAIN newPop |-> IF idx < size * INDIVIDUAL_LEN THEN pop[idx] ELSE newPop[idx]]

\* newPopulation after selection's reordering loop
selection(pop, newPop, size, pairs) ==
    [idx \in DOMAIN newPop |->
        IF idx < size * INDIVIDUAL_LEN
        THEN pop[pairs[idx \div INDIVIDUAL_LEN][2] * INDIVIDUAL_LEN + (idx % INDIVIDUAL_LEN)]
        ELSE newPop[idx]]

(***************************************************************************)
(* main of the sequential version                                          *)
(***************************************************************************)
\* the configurations of config.h and the input file
Configurations ==
    /\ POPULATION_SIZE \in PopulationSizes
    /\ N_POINTS \in 0 .. MaxPoints
    /\ maxGenerationNumber \in 0 .. MaxGenerations
    /\ targetErr \in TargetErrs
    /\ maxConstIter \in MaxConstIters
    /\ points = PointsOf(N_POINTS)

\* main has read the points; nothing is allocated yet
Start ==
    /\ pc = "start"
    /\ population = << >>
    /\ newPopulation = << >>
    /\ current_fitnesses = << >>
    /\ beyond_fitnesses = 0
    /\ mutations = 0
    /\ generationNumber = 0
    /\ noChangeIter = 0
    /\ bestFitness = INFINITY
    /\ previousBestFitness = INFINITY
    /\ draws = << >>
    /\ written = {}

\* no MPI process is under observation
NoProcesses ==
    /\ commSize = 0
    /\ mpc = << >>
    /\ result_o = << >>
    /\ channel = << >>
    /\ recv_i = 0
    /\ solution_all = << >>
    /\ bestFitness_all = << >>
    /\ time_all = << >>
    /\ genNumber_all = << >>
    /\ printed = << >>
    /\ aborted = FALSE

InitGA == Configurations /\ Start /\ NoProcesses

\* the arrays are allocated, the first population is drawn, the loop's variables are set
Initialize ==
    /\ pc = "start"
    /\ \E first \in [0 .. POPULATION_SIZE - 1 -> InitIndividuals], g1 \in UninitFloats :
       LET g2 == g1
           g3 == g1
       IN
          /\ population' = [idx \in 0 .. AllocLen(POPULATION_SIZE) - 1 |->
                              IF idx < POPULATION_SIZE * INDIVIDUAL_LEN
                              THEN first[idx \div INDIVIDUAL_LEN][(idx % INDIVIDUAL_LEN) + 1]
                              ELSE g1]
          /\ newPopulation' = [idx \in 0 .. AllocLen(POPULATION_SIZE) - 1 |-> g2]
          /\ current_fitnesses' = [i \in 0 .. POPULATION_SIZE - 1 |-> g3]
          /\ beyond_fitnesses' = g3
    /\ generationNumber' = 0
    /\ noChangeIter' = 0
    /\ bestFitness' = INFINITY
    /\ previousBestFitness' = INFINITY
    /\ pc' = "loop"
    /\ UNCHANGED << mpiVars, config, mutations, draws, written >>

\* a loop condition that lets one generation too many begin
LoopConditionOffByOne ==
    /\ generationNumber <= maxGenerationNumber
    /\ bestFitness > targetErr
    /\ noChangeIter < maxConstIter

\* the condition of the while loop
LoopCondition ==
    /\ generationNumber < maxGenerationNumber
    /\ bestFitness > targetErr
    /\ noChangeIter < maxConstIter

\* the loop's condition holds: generationNumber++
BeginGeneration ==
    /\ pc = "loop"
    /\ LoopCondition
    /\ generationNumber' = generationNumber + 1
    /\ pc' = "crossover"
    /\ UNCHANGED << mpiVars, config, population, newPopulation, current_fitnesses, noChangeIter,
                    bestFitness, previousBestFitness, mutations, beyond_fitnesses,
                    draws, written >>

\* the loop's condition fails: the solution is printed
EndLoop ==
    /\ pc = "loop"
    /\ ~ LoopCondition
    /\ pc' = "done"
    /\ UNCHANGED << mpiVars, config, population, newPopulation, current_fitnesses, generationNumber,
                    noChangeIter, bestFitness, previousBestFitness, mutations,
                    beyond_fitnesses, draws, written >>

\* random() % (POPULATION_SIZE/2) with POPULATION_SIZE/2 = 0: an integer division by
\* zero, on which the process is killed (SIGFPE)
DividesByZero(size) == CrossoverPairs(size) > 0 /\ size \div 2 = 0

\* crossover(population, newPopulation) and the exchange of the two pointers
Crossover ==
    /\ pc = "crossover"
    /\ IF DividesByZero(POPULATION_SIZE)
       THEN /\ pc' = "fault"
            /\ UNCHANGED << population, newPopulation, draws, written >>
       ELSE \E d \in CrossoverDraws(POPULATION_SIZE) :
               /\ population' = crossover(population, newPopulation, POPULATION_SIZE, d)
               /\ newPopulation' = population
               /\ draws' = d
               /\ written' = CrossoverWritten(POPULATION_SIZE)
               /\ pc' = "mutation"
    /\ UNCHANGED << mpiVars, config, current_fitnesses, generationNumber, noChangeIter,
                    bestFitness, previousBestFitness, mutations, beyond_fitnesses >>

\* population = mutation(population)
Mutation ==
    /\ pc = "mutation"
    /\ \E m \in MutationChoices(POPULATION_SIZE, 0, MaxMutations - mutations) :
          /\ population' = mutation(population, m)
          /\ mutations' = mutations + Len(m)
    /\ draws' = << >>
    /\ written' = {}
    /\ pc' = "fitness"
    /\ UNCHANGED << mpiVars, config, newPopulation, current_fitnesses, generationNumber, noChangeIter,
                    bestFitness, previousBestFitness, beyond_fitnesses >>

\* current_fitnesses[0] as main reads it
FirstFitness(fitnesses, size, beyond) == IF size > 0 THEN fitnesses[0] ELSE beyond

\* noChangeIter after the comparison of bestFitness with previousBestFitness
NoChangeUpdate(best, previous, count) ==
    IF Abs(best - previous) < NoChangeEps THEN count + 1 ELSE 0

\* fitness(population, points, current_fitnesses), bestFitness and the no-change counter
Fitness ==
    /\ pc = "fitness"
    /\ current_fitnesses' = fitness(population, points, N_POINTS, POPULATION_SIZE)
    /\ bestFitness' = FirstFitness(current_fitnesses', POPULATION_SIZE, beyond_fitnesses)
    /\ noChangeIter' = NoChangeUpdate(bestFitness', previousBestFitness, noChangeIter)
    /\ previousBestFitness' = bestFitness'
    /\ pc' = "selection"
    /\ UNCHANGED << mpiVars, config, population, newPopulation, generationNumber, mutations,
                    beyond_fitnesses, draws, written >>

\* population = selection(population, current_fitnesses, newPopulation), newPopulation = tmp
Selection ==
    /\ pc = "selection"
    /\ \E pairs \in SortedPairs(current_fitnesses, POPULATION_SIZE) :
          /\ population' = selection(population, newPopulation, POPULATION_SIZE, pairs)
          /\ newPopulation' = population
    /\ pc' = "loop"
    /\ UNCHANGED << mpiVars, config, current_fitnesses, generationNumber, noChangeIter, bestFitness,
                    previousBestFitness, mutations, beyond_fitnesses, draws, written >>

NextGA ==
    \/ Initialize
    \/ BeginGeneration
    \/ Crossover
    \/ Mutation
    \/ Fitness
    \/ Selection
    \/ EndLoop

SpecGA == InitGA /\ [][NextGA]_vars

(***************************************************************************)
(* The budget scenario: maxGenerationNumber = 10, targetErr = 0            *)
(***************************************************************************)
InitBudget ==
    /\ POPULATION_SIZE \in 1 .. 3
    /\ N_POINTS = 1
    /\ maxGenerationNumber = 10
    /\ targetErr = 0
    /\ maxConstIter \in {3, 10}
    /\ points = PointsOf(N_POINTS)
    /\ Start
    /\ NoProcesses

SpecBudget == InitBudget /\ [][NextGA]_vars

(***************************************************************************)
(* crossover alone, on the populations of a first generation               *)
(***************************************************************************)
\* main is about to call crossover for the first time
AtFirstCall(where) ==
    /\ pc = where
    /\ generationNumber = 1
    /\ noChangeIter = 0
    /\ bestFitness = INFINITY
    /\ previousBestFitness = INFINITY
    /\ mutations = 0
    /\ draws = << >>
    /\ written = {}

InitCrossover ==
    /\ POPULATION_SIZE \in 0 .. MaxCrossoverSize
    /\ N_POINTS = 1
    /\ maxGenerationNumber = 1
    /\ targetErr = 0
    /\ maxConstIter = 1
    /\ points = PointsOf(N_POINTS)
    /\ \E base \in {100, 200}, g \in UninitFloats :
          /\ population = [idx \in 0 .. AllocLen(POPULATION_SIZE) - 1 |->
                              IF idx < POPULATION_SIZE * INDIVIDUAL_LEN THEN base + idx ELSE g]
          /\ newPopulation = [idx \in 0 .. AllocLen(POPULATION_SIZE) - 1 |-> g]
          /\ current_fitnesses = [i \in 0 .. POPULATION_SIZE - 1 |-> g]
          /\ beyond_fitnesses = g
    /\ AtFirstCall("crossover")
    /\ NoProcesses

NextCrossover == Crossover

SpecCrossover == InitCrossover /\ [][NextCrossover]_vars

(***************************************************************************)
(* selection alone, on the populations fitness() has just scored           *)
(***************************************************************************)
\* individuals of the population handed to selection; with one point (0, 0) the
\* fitness of an individual is the square of its gene 0
SelectionIndividuals == { <<0, 0, 0, 0>>, <<1, 0, 0, 0>>, <<-1, 5, 0, 0>>, <<2, 0, 0, 0>> }

InitSelection ==
    /\ POPULATION_SIZE \in 0 .. MaxSelectionSize
    /\ N_POINTS = 1
    /\ maxGenerationNumber = 1
    /\ targetErr = 0
    /\ maxConstIter = 1
    /\ points = PointsOf(N_POINTS)
    /\ \E input \in [0 .. POPULATION_SIZE - 1 -> SelectionIndividuals], g \in UninitFloats :
          /\ population = [idx \in 0 .. AllocLen(POPULATION_SIZE) - 1 |->
                              IF idx < POPULATION_SIZE * INDIVIDUAL_LEN
                              THEN input[idx \div INDIVIDUAL_LEN][(idx % INDIVIDUAL_LEN) + 1]
                              ELSE g]
          /\ newPopulation = [idx \in 0 .. AllocLen(POPULATION_SIZE) - 1 |-> g]
          /\ beyond_fitnesses = g
    /\ current_fitnesses = fitness(population, points, N_POINTS, POPULATION_SIZE)
    /\ AtFirstCall("selection")
    /\ NoProcesses

NextSelection == Selection

SpecSelection == InitSelection /\ [][NextSelection]_vars

(***************************************************************************)
(* Properties of the sequential version                                    *)
(***************************************************************************)
\* what main prints as the solution: the first individual of population
Solution == Individual(population, 0)

\* C1 (elitism monotonicity): the bestFitness recorded in a generation is never
\* larger than the bestFitness recorded in the generation before it
ElitismMonotone == [][bestFitness' <= bestFitness]_vars

\* a second or later generation has recorded a bestFitness that differs from the
\* previous generation's by 0.01 or more
WitnessElitism ==
    /\ pc = "selection"
    /\ generationNumber >= 2
    /\ noChangeIter = 0
    /\ bestFitness < INFINITY

\* C3 (reported fitness): when the loop has ended after at least one generation, the
\* reported bestFitness is the fitness of the reported solution, population[0] of
\* the final selection-ordered population
ReportedFitnessIsSolutionFitness ==
    (pc = "done" /\ generationNumber >= 1 /\ POPULATION_SIZE >= 1)
        => bestFitness = SumError(population, points, N_POINTS, 0)

\* C4 (termination policy): the loop never faults, runs at most maxGenerationNumber
\* generations, is inside a generation only if its condition held when the
\* generation began, and on exit bestFitness <= targetErr (Converged) or
\* generationNumber >= maxGenerationNumber or noChangeIter >= maxConstIter (Exhausted)
TerminationPolicy ==
    /\ pc # "fault"
    /\ generationNumber <= maxGenerationNumber
    /\ pc = "done" => \/ bestFitness <= targetErr
                      \/ generationNumber >= maxGenerationNumber
                      \/ noChangeIter >= maxConstIter

\* the part of C4 that does not depend on the operators: the bound on the
\* generations and the condition on exit
LoopGuardPolicy ==
    /\ generationNumber <= maxGenerationNumber
    /\ pc = "done" => ~ LoopCondition

\* C6 (configuration rejection): with N_POINTS = 0 or POPULATION_SIZE = 0 nothing is
\* initialised, no generation runs, nothing is reported and nothing faults: main
\* stays where it started
ConfigurationRejected ==
    (POPULATION_SIZE = 0 \/ N_POINTS = 0) => pc = "start"

\* C7 as stated (budget scenario): with maxGenerationNumber = 10 and targetErr = 0
\* never reached, the loop ends with generationNumber = 10
BudgetExactlyTen ==
    (maxGenerationNumber = 10 /\ targetErr = 0 /\ pc = "done" /\ bestFitness > 0)
        => generationNumber = 10

\* C7 as amended: in that scenario the loop runs at most 10 generations and ends
\* Exhausted: at generation 10, or earlier once noChangeIter has reached maxConstIter
BudgetExhausted ==
    (maxGenerationNumber = 10 /\ targetErr = 0)
        => /\ generationNumber <= 10
           /\ (pc = "done" /\ bestFitness > 0)
                 => \/ generationNumber = 10
                    \/ noChangeIter >= maxConstIter

\* the loop has ended at generation 10 on the budget alone
WitnessBudget ==
    /\ maxGenerationNumber = 10
    /\ targetErr = 0
    /\ pc = "done"
    /\ bestFitness > 0
    /\ generationNumber = 10
    /\ noChangeIter < maxConstIter

\* C8 (stagnation scenario): with maxConstIter = 3 and POPULATION_SIZE = 1 the loop
\* runs without fault and ends Exhausted when noChangeIter has reached 3
StagnationScenario ==
    (POPULATION_SIZE = 1 /\ maxConstIter = 3)
        => /\ pc # "fault"
           /\ noChangeIter <= 3
           /\ (pc = "done" /\ generationNumber < maxGenerationNumber /\ bestFitness > targetErr)
                 => noChangeIter = 3

(***************************************************************************)
(* Properties of crossover                                                 *)
(***************************************************************************)
\* parent1's genes before the crosspoint, parent2's from the crosspoint on
Splice(parent1, parent2, crosspoint) ==
    [j \in 0 .. INDIVIDUAL_LEN - 1 |-> IF j < crosspoint THEN parent1[j] ELSE parent2[j]]

\* C9 (crossover children): after crossover every pair of children in the second
\* half of the output is the two complementary splices, at one crosspoint, of two
\* individuals at indices 0 .. size/2-1 of the input population
ChildrenFromEliteHalf ==
    pc = "mutation" =>
        \A k \in 1 .. CrossoverPairs(POPULATION_SIZE) :
            \E a, b \in 0 .. (POPULATION_SIZE \div 2) - 1, c \in 1 .. INDIVIDUAL_LEN - 2 :
                LET first == (POPULATION_SIZE \div 2) + 2 * (k - 1)
                IN  /\ Individual(population, first)
                          = Splice(Individual(newPopulation, a), Individual(newPopulation, b), c)
                    /\ Individual(population, first + 1)
                          = Splice(Individual(newPopulation, b), Individual(newPopulation, a), c)

\* C10 (crossover size preservation): for POPULATION_SIZE >= 2 crossover stores to
\* exactly the positions of individuals 0 .. POPULATION_SIZE-1 of the output, and the
\* individuals 0 .. size/2-1 are copies of the input's
CrossoverPreservesSize ==
    (pc = "mutation" /\ POPULATION_SIZE >= 2)
        => /\ written = 0 .. POPULATION_SIZE * INDIVIDUAL_LEN - 1
           /\ \A idx \in 0 .. (POPULATION_SIZE \div 2) * INDIVIDUAL_LEN - 1 :
                 population[idx] = newPopulation[idx]

(***************************************************************************)
(* Properties of mutation                                                  *)
(***************************************************************************)
\* C11 (mutation frame): a call of mutation leaves every gene of individual 0 and
\* everything of the buffer behind individual POPULATION_SIZE-1 as it was, so only genes
\* of individuals 1 .. POPULATION_SIZE-1 change, and it leaves the fitness table as it was
MutationFrame ==
    [][pc = "mutation" =>
          /\ DOMAIN population' = DOMAIN population
          /\ \A idx \in DOMAIN population :
                (idx < INDIVIDUAL_LEN \/ idx >= POPULATION_SIZE * INDIVIDUAL_LEN)
                    => population'[idx] = population[idx]
          /\ current_fitnesses' = current_fitnesses
          /\ beyond_fitnesses' = beyond_fitnesses]_vars

\* mutation has changed a gene of the first generation's population, whose individual 0
\* is still the copy crossover made of the best individual
WitnessMutationFrame ==
    /\ pc = "fitness"
    /\ generationNumber = 1
    /\ mutations >= 1
    /\ POPULATION_SIZE >= 2
    /\ Individual(population, 0) = Individual(newPopulation, 0)

(***************************************************************************)
(* Properties of selection                                                 *)
(***************************************************************************)
\* the rearrangements of 0 .. size-1
Permutations(size) ==
    { f \in [0 .. size - 1 -> 0 .. size - 1] : \A i \in 0 .. size - 1 : \E k \in 0 .. size - 1 : f[k] = i }

\* C2 (selection ordering): after selection the output holds the input's individuals,
\* each once, in an order in which their fitness values do not decrease
SelectionOrdering ==
    (pc = "loop" /\ generationNumber >= 1) =>
        \E f \in Permutations(POPULATION_SIZE) :
            /\ \A i \in 0 .. POPULATION_SIZE - 1 :
                  Individual(population, i) = Individual(newPopulation, f[i])
            /\ \A i, j \in 0 .. POPULATION_SIZE - 1 :
                  i < j => current_fitnesses[f[i]] <= current_fitnesses[f[j]]

\* selection has moved individuals of three different fitness values
WitnessSelection ==
    /\ pc = "loop"
    /\ generationNumber >= 1
    /\ POPULATION_SIZE >= 3
    /\ population # newPopulation
    /\ Cardinality({ current_fitnesses[i] : i \in 0 .. POPULATION_SIZE - 1 }) >= 3

\* the arrangement of 0 .. size-1 by fitness, equal fitness values by index: position p
\* holds the index that has exactly p indices before it in that order
StableOrder(fitnesses, size) ==
    [p \in 0 .. size - 1 |->
        CHOOSE i \in 0 .. size - 1 :
            Cardinality({ k \in 0 .. size - 1 :
                            \/ fitnesses[k] < fitnesses[i]
                            \/ (fitnesses[k] = fitnesses[i] /\ k < i) }) = p]

\* C13 as stated (selection tie-break): the output of selection is the one arrangement
\* of the input in which fitness does not decrease and, of two individuals of equal
\* fitness, the one with the lower original index comes first
SelectionStable ==
    (pc = "loop" /\ generationNumber >= 1) =>
        \A i \in 0 .. POPULATION_SIZE - 1 :
            Individual(population, i) =
                Individual(newPopulation, StableOrder(current_fitnesses, POPULATION_SIZE)[i])

\* C13 (selection up to ties): the output of selection is determined by the input up to
\* the order of individuals of equal fitness: it holds every individual as often as the
\* input does, and each position holds an individual of the input's fitness table whose
\* fitness is the one the arrangement by fitness and index has at that position
SelectionUpToTies ==
    (pc = "loop" /\ generationNumber >= 1) =>
        \A i \in 0 .. POPULATION_SIZE - 1 :
            /\ Cardinality({ k \in 0 .. POPULATION_SIZE - 1 :
                                Individual(population, k) = Individual(newPopulation, i) })
                  = Cardinality({ k \in 0 .. POPULATION_SIZE - 1 :
                                    Individual(newPopulation, k) = Individual(newPopulation, i) })
            /\ \E k \in 0 .. POPULATION_SIZE - 1 :
                  /\ Individual(population, i) = Individual(newPopulation, k)
                  /\ current_fitnesses[k] =
                        current_fitnesses[StableOrder(current_fitnesses, POPULATION_SIZE)[i]]

\* selection has put an individual behind one of equal fitness and higher original index
WitnessSelectionTie ==
    /\ pc = "loop"
    /\ generationNumber >= 1
    /\ \E i, j \in 0 .. POPULATION_SIZE - 1 :
          /\ i < j
          /\ current_fitnesses[i] = current_fitnesses[j]
          /\ Individual(newPopulation, i) # Individual(newPopulation, j)
    /\ \E i \in 0 .. POPULATION_SIZE - 1 :
          Individual(population, i) #
              Individual(newPopulation, StableOrder(current_fitnesses, POPULATION_SIZE)[i])

(***************************************************************************)
(* main of the MPI version                                                 *)
(***************************************************************************)
masterProcess == 0

\* the tags of the four transfers, in the order they are sent and received
Tags == << 11, 22, 33, 44 >>

\* best fitness values computeGA can return, in units of 0.1
FitnessValues == {1, 5, 9}

\* what computeGA can leave in the output variables of rank r
RunResults(r) ==
    { [solution_o    |-> [i \in 0 .. INDIVIDUAL_LEN - 1 |-> 10 * f + r + i],
       bestFitness_o |-> f,
       time_o        |-> 100 + 10 * r + f,
       genNumber_o   |-> 1 + r + 2 * f] : f \in FitnessValues }

Ranks == 0 .. commSize - 1

RECURSIVE FindMinimumFrom(_, _, _, _, _)
\* the loop of findMinimum from index i on
FindMinimumFrom(array, arrayLen, i, min, minIdx) ==
    IF i >= arrayLen THEN minIdx
    ELSE IF array[i] < min
         THEN FindMinimumFrom(array, arrayLen, i + 1, array[i], i)
         ELSE FindMinimumFrom(array, arrayLen, i + 1, min, minIdx)

\* a search that replaces the minimum on "<=" and so returns the last least element
findMinimumLast(array, arrayLen) ==
    CHOOSE i \in 0 .. arrayLen - 1 :
        /\ \A j \in 0 .. arrayLen - 1 : array[i] <= array[j]
        /\ \A j \in i + 1 .. arrayLen - 1 : array[i] < array[j]

\* returns index of minimal value in the input array
findMinimum(array, arrayLen) == FindMinimumFrom(array, arrayLen, 1, array[0], 0)

\* the sequential program is not under observation
NoLoop ==
    /\ POPULATION_SIZE = 0
    /\ N_POINTS = 0
    /\ maxGenerationNumber = 0
    /\ targetErr = 0
    /\ maxConstIter = 0
    /\ points = << >>
    /\ Start

\* MPI_Init has returned in every process
InitMPI ==
    /\ commSize \in 1 .. MaxProcesses + 1
    /\ mpc = [r \in Ranks |-> "start"]
    /\ result_o = [r \in Ranks |-> << >>]
    /\ channel = [r \in Ranks |-> << >>]
    /\ recv_i = 0
    /\ solution_all = << >>
    /\ bestFitness_all = << >>
    /\ time_all = << >>
    /\ genNumber_all = << >>
    /\ printed = << >>
    /\ aborted = FALSE
    /\ NoLoop

\* rank r: the check of commSize, readData, computeGA; the master allocates its arrays
Compute(r) ==
    /\ ~ aborted
    /\ mpc[r] = "start"
    /\ IF commSize > MaxProcesses
       THEN /\ mpc' = [mpc EXCEPT ![r] = "rejected"]
            /\ UNCHANGED << result_o, recv_i, solution_all, bestFitness_all, time_all,
                            genNumber_all >>
       ELSE /\ \E res \in RunResults(r) : result_o' = [result_o EXCEPT ![r] = res]
            /\ IF r = masterProcess
               THEN \E g \in UninitFloats :
                       /\ solution_all' = [i \in 0 .. INDIVIDUAL_LEN * commSize - 1 |-> g]
                       /\ bestFitness_all' = [i \in Ranks |-> g]
                       /\ time_all' = [i \in Ranks |-> g]
                       /\ genNumber_all' = [i \in Ranks |-> g]
                       /\ recv_i' = 1
                       /\ mpc' = [mpc EXCEPT ![r] = IF 1 < commSize THEN "recv11" ELSE "copy"]
               ELSE /\ mpc' = [mpc EXCEPT ![r] = "send11"]
                    /\ UNCHANGED << recv_i, solution_all, bestFitness_all, time_all,
                                    genNumber_all >>
    /\ UNCHANGED << gaVars, commSize, channel, printed, aborted >>

\* the position after the transfer with tag number k (1 .. 4) of a sender
AfterSend(k) == IF k = 1 THEN "send22" ELSE IF k = 2 THEN "send33"
                ELSE IF k = 3 THEN "send44" ELSE "finalize"

\* the value rank r sends with tag number k
Payload(res, k) == IF k = 1 THEN res.solution_o ELSE IF k = 2 THEN res.bestFitness_o
                   ELSE IF k = 3 THEN res.time_o ELSE res.genNumber_o

SendPositions == << "send11", "send22", "send33", "send44" >>

RecvPositions == << "recv11", "recv22", "recv33", "recv44" >>

\* rank r > 0: MPI_Send with tag number k returns MPI_SUCCESS
Send(r, k) ==
    /\ ~ aborted
    /\ r # masterProcess
    /\ mpc[r] = SendPositions[k]
    /\ channel' = [channel EXCEPT ![r] = Append(@, << Tags[k], Payload(result_o[r], k) >>)]
    /\ mpc' = [mpc EXCEPT ![r] = AfterSend(k)]
    /\ UNCHANGED << gaVars, commSize, result_o, recv_i, solution_all, bestFitness_all,
                    time_all, genNumber_all, printed, aborted >>

\* the master: MPI_Recv from rank recv_i with tag number k returns MPI_SUCCESS
Recv(k) ==
    /\ ~ aborted
    /\ mpc[masterProcess] = RecvPositions[k]
    /\ channel[recv_i] # << >>
    /\ Head(channel[recv_i])[1] = Tags[k]
    /\ LET value == Head(channel[recv_i])[2]
       IN  /\ solution_all' =
                 IF k = 1
                 THEN [idx \in DOMAIN solution_all |->
                          IF idx \in recv_i * INDIVIDUAL_LEN .. recv_i * INDIVIDUAL_LEN + INDIVIDUAL_LEN - 1
                          THEN value[idx - recv_i * INDIVIDUAL_LEN]
                          ELSE solution_all[idx]]
                 ELSE solution_all
           /\ bestFitness_all' = IF k = 2 THEN [bestFitness_all EXCEPT ![recv_i] = value]
                                 ELSE bestFitness_all
           /\ time_all' = IF k = 3 THEN [time_all EXCEPT ![recv_i] = value] ELSE time_all
           /\ genNumber_all' = IF k = 4 THEN [genNumber_all EXCEPT ![recv_i] = value]
                               ELSE genNumber_all
    /\ channel' = [channel EXCEPT ![recv_i] = Tail(@)]
    /\ recv_i' = IF k = 4 THEN recv_i + 1 ELSE recv_i
    /\ mpc' = [mpc EXCEPT ![masterProcess] =
                  IF k < 4 THEN RecvPositions[k + 1]
                  ELSE IF recv_i + 1 < commSize THEN "recv11" ELSE "copy"]
    /\ UNCHANGED << gaVars, commSize, result_o, printed, aborted >>

\* an MPI_CHECK that does not abort: the master's MPI_Recv fails, the message is lost
\* and the master goes on to its next call with the slot as it was
TransferFailsIgnored(r) ==
    /\ ~ aborted
    /\ r = masterProcess
    /\ \E k \in 1 .. 4 :
          /\ mpc[r] = RecvPositions[k]
          /\ channel[recv_i] # << >>
          /\ channel' = [channel EXCEPT ![recv_i] = Tail(@)]
          /\ recv_i' = IF k = 4 THEN recv_i + 1 ELSE recv_i
          /\ mpc' = [mpc EXCEPT ![r] =
                        IF k < 4 THEN RecvPositions[k + 1]
                        ELSE IF recv_i + 1 < commSize THEN "recv11" ELSE "copy"]
    /\ UNCHANGED << gaVars, commSize, result_o, solution_all, bestFitness_all, time_all,
                    genNumber_all, printed, aborted >>

\* a call of MPI_Send or MPI_Recv of rank r does not return MPI_SUCCESS: my_abort
TransferFails(r) ==
    /\ ~ aborted
    /\ \E k \in 1 .. 4 : mpc[r] = SendPositions[k] \/ mpc[r] = RecvPositions[k]
    /\ aborted' = TRUE
    /\ UNCHANGED << gaVars, commSize, mpc, result_o, channel, recv_i, solution_all,
                    bestFitness_all, time_all, genNumber_all, printed >>

\* the master copies its own results
CopyOwn ==
    /\ ~ aborted
    /\ mpc[masterProcess] = "copy"
    /\ solution_all' = [idx \in DOMAIN solution_all |->
                           IF idx \in masterProcess .. masterProcess + INDIVIDUAL_LEN - 1
                           THEN result_o[masterProcess].solution_o[idx - masterProcess]
                           ELSE solution_all[idx]]
    /\ bestFitness_all' = [bestFitness_all EXCEPT ![masterProcess] = result_o[masterProcess].bestFitness_o]
    /\ time_all' = [time_all EXCEPT ![masterProcess] = result_o[masterProcess].time_o]
    /\ genNumber_all' = [genNumber_all EXCEPT ![masterProcess] = result_o[masterProcess].genNumber_o]
    /\ mpc' = [mpc EXCEPT ![masterProcess] = "find"]
    /\ UNCHANGED << gaVars, commSize, result_o, channel, recv_i, printed, aborted >>

\* what the master prints for the process bestSolution
Report(bestSolution) ==
    [rank        |-> bestSolution,
     solution    |-> [i \in 0 .. INDIVIDUAL_LEN - 1 |-> solution_all[bestSolution * INDIVIDUAL_LEN + i]],
     fitness     |-> bestFitness_all[bestSolution],
     generations |-> genNumber_all[bestSolution],
     time        |-> time_all[bestSolution]]

\* the master finds the best solution amongst the obtained results and prints it
FindAndPrint ==
    /\ ~ aborted
    /\ mpc[masterProcess] = "find"
    /\ printed' = Report(findMinimum(bestFitness_all, commSize))
    /\ mpc' = [mpc EXCEPT ![masterProcess] = "finalize"]
    /\ UNCHANGED << gaVars, commSize, result_o, channel, recv_i, solution_all,
                    bestFitness_all, time_all, genNumber_all, aborted >>

\* rank r: MPI_Finalize and the end of main
Finalize(r) ==
    /\ ~ aborted
    /\ mpc[r] = "finalize"
    /\ mpc' = [mpc EXCEPT ![r] = "done"]
    /\ UNCHANGED << gaVars, commSize, result_o, channel, recv_i, solution_all,
                    bestFitness_all, time_all, genNumber_all, printed, aborted >>

NextMPI ==
    \/ \E r \in Ranks : Compute(r)
    \/ \E r \in Ranks, k \in 1 .. 4 : Send(r, k)
    \/ \E k \in 1 .. 4 : Recv(k)
    \/ \E r \in Ranks : TransferFails(r)
    \/ CopyOwn
    \/ FindAndPrint
    \/ \E r \in Ranks : Finalize(r)

SpecMPI == InitMPI /\ [][NextMPI]_vars

(***************************************************************************)
(* Properties of the MPI version                                           *)
(***************************************************************************)
\* C5 (global result): what the master prints is the rank whose bestFitness_o is the
\* least of all ranks', the lowest such rank, with the coefficients, fitness,
\* generation count and time computeGA produced on that rank
GlobalResult ==
    (printed # << >>) =>
        /\ printed.rank \in Ranks
        /\ \A r \in Ranks : result_o[printed.rank].bestFitness_o <= result_o[r].bestFitness_o
        /\ \A r \in Ranks : r < printed.rank
              => result_o[printed.rank].bestFitness_o < result_o[r].bestFitness_o
        /\ printed.solution = result_o[printed.rank].solution_o
        /\ printed.fitness = result_o[printed.rank].bestFitness_o
        /\ printed.generations = result_o[printed.rank].genNumber_o
        /\ printed.time = result_o[printed.rank].time_o

\* three workers found 0.5, 0.1 and 0.9 and the master printed the result of rank 1
WitnessGlobalResult ==
    /\ commSize = 3
    /\ printed # << >>
    /\ result_o[0].bestFitness_o = 5
    /\ result_o[1].bestFitness_o = 1
    /\ result_o[2].bestFitness_o = 9
    /\ printed.rank = 1
    /\ printed.fitness = 1

\* C12 (gather completeness): once the master is past its copy, hence whenever it has
\* printed a result, every rank 1 .. commSize-1 has made its four sends, none of them
\* is still in flight, and slot r of the four arrays holds what rank r computed (slot 0
\* the master's own); a run in which a transfer failed has printed nothing
GatherComplete ==
    /\ (printed # << >>) => mpc[masterProcess] \in {"finalize", "done"}
    /\ (commSize <= MaxProcesses /\ mpc[masterProcess] \in {"find", "finalize", "done"}) =>
          /\ ~ aborted
          /\ DOMAIN bestFitness_all = Ranks
          /\ \A r \in Ranks :
                /\ r # masterProcess => (mpc[r] \in {"finalize", "done"} /\ channel[r] = << >>)
                /\ Individual(solution_all, r) = result_o[r].solution_o
                /\ bestFitness_all[r] = result_o[r].bestFitness_o
                /\ time_all[r] = result_o[r].time_o
                /\ genNumber_all[r] = result_o[r].genNumber_o
    /\ aborted => printed = << >>

\* the master has gathered the results of three other ranks and printed
WitnessGatherComplete ==
    /\ commSize = MaxProcesses
    /\ printed # << >>
    /\ mpc[masterProcess] = "done"
    /\ \A r \in Ranks : bestFitness_all[r] = result_o[r].bestFitness_o

=============================================================================
